---- MODULE Spec2Model ----
(***************************************************************************)
(* The server resource of the UpCloud Terraform provider                   *)
(* (upcloud/resource_upcloud_server.go): the Create, Read, Update and      *)
(* Delete handlers as step machines over the tracked resource data `d`,    *)
(* the remote server `remote` and the sequence `log` of requests a handler *)
(* has issued.                                                              *)
(***************************************************************************)
EXTENDS Integers, Sequences, FiniteSets, TLC

VARIABLES
    op,             \* the handler that was invoked: "create", "read", "update", "delete"
    pc,             \* the handler's position
    prior,          \* the resource data as of the prior state (d.GetChange's old side)
    d,              \* the resource data d.Get reads and d.Set writes
    remote,         \* the server as the remote system holds it
    serverDetails,  \* Update: the details fetched on entry
    server,         \* Create: the server value the client calls returned
    err,            \* Create: the err value of the wait call
    toDetach,       \* Update: devices the detach loop has still to visit
    toAttach,       \* Update: devices the attach loop has still to visit
    log,            \* the requests issued so far, in order, each with its outcome
    ret,            \* what the handler returned: "none" while running, "ok", "error", "panic"
    retry           \* utils.WithRetry: the running call's parameters, locals, position and events

vars == <<op, pc, prior, d, remote, serverDetails, server, err, toDetach, toAttach, log, ret, retry>>

(***************************************************************************)
(* Bounds of the model.                                                    *)
(***************************************************************************)
MaxDevs == 2        \* additional storage devices in one configuration
MaxIfaces == 2      \* network interfaces of a remote server

(***************************************************************************)
(* Values.                                                                  *)
(***************************************************************************)
Nil == [nil |-> TRUE]
NoRetry == Nil                          \* no call of utils.WithRetry is running
ServerUUID == "srv"
TemplateUUID == "T"                     \* the UUID the remote system gives the boot device
Storages == {"A", "B", "C"}             \* storage UUIDs of additional devices
Addresses == {"ide:0", "scsi:1", "virtio:2"}
TemplateAddresses == {"virtio:0"} \cup Addresses
Types == {"disk"}
Sizes == {10, 20}
Titles == {"t1", "t2"}
BackupRules == {"", "daily"}            \* "" is the zero value: no backup_rule block
Plans == {"", "1xCPU-1GB"}              \* "" is the zero value: plan not set

\* An element of the storage_devices set (schema lines 180-199).
Devices == [storage : Storages, address : Addresses, type : Types]

Injective(S, f(_)) == \A x, y \in S : f(x) = f(y) => x = y
StorageOf(x) == x.storage
AddressOf(x) == x.address

\* The storage_devices sets drawn as configurations: each storage attached
\* once, each address used once.
DeviceSets ==
    {S \in SUBSET Devices :
        /\ Cardinality(S) <= MaxDevs
        /\ Injective(S, StorageOf)
        /\ Injective(S, AddressOf)}

RECURSIVE SetToSeq(_)
SetToSeq(S) ==
    IF S = {} THEN <<>>
    ELSE LET x == CHOOSE y \in S : TRUE IN <<x>> \o SetToSeq(S \ {x})

Range(s) == {s[i] : i \in 1..Len(s)}

\* All orders of a finite set.
Perms(S) == {s \in [1..Cardinality(S) -> S] : Range(s) = S}

(***************************************************************************)
(* The remote system, as the handlers see it through the client.           *)
(***************************************************************************)
TriStates == {"empty", "true", "false"}     \* upcloud.Boolean
Empty(b) == b = "empty"
Bool(b) == b = "true"

IfaceTypes == {"public", "private"}
Families == {"IPv4", "IPv6"}
IPs == <<"10.0.0.1", "10.0.0.2", "10.0.0.3", "10.0.0.4">>
\* The tri-state triples (Floating, Bootable, SourceIPFiltering) drawn for an interface.
TriTriples ==
    {<<"empty", "true", "false">>, <<"true", "false", "empty">>, <<"false", "empty", "true">>}

IfaceKinds == [Type : IfaceTypes, Family : Families, Tri : TriTriples]

\* The i-th interface of a remote list: each interface has an address of its own.
MkIface(k, i) ==
    [Type |-> k.Type, Family |-> k.Family, Address |-> IPs[i],
     Floating |-> k.Tri[1], Bootable |-> k.Tri[2], SourceIPFiltering |-> k.Tri[3],
     MAC |-> "mac", Network |-> "net"]

IfaceLists ==
    UNION {{[i \in 1..n |-> MkIface(ks[i], i)] : ks \in [1..n -> IfaceKinds]} : n \in 0..MaxIfaces}

\* Attributes of the boot storage as created from the template.
TemplateStorage0 == [size |-> 10, title |-> "t1", backup_rule |-> ""]

\* The record GetServerDetails returns for one attached device.
DeviceDetails(r, dev) ==
    [UUID |-> dev.UUID, Address |-> dev.Address, Type |-> dev.Type,
     Size |-> IF dev.UUID = TemplateUUID THEN r.storage.size ELSE 10,
     Title |-> IF dev.UUID = TemplateUUID THEN r.storage.title ELSE dev.UUID,
     Tier |-> "maxiops"]

\* upcloud.ServerDetails as the client returns it for the remote server r.
DetailsOf(r) ==
    [UUID |-> ServerUUID, Hostname |-> r.hostname, Title |-> "title", Zone |-> "fi-hel1",
     CoreNumber |-> r.cpu, MemoryAmount |-> r.mem,
     Interfaces |-> r.interfaces,
     StorageDevices |-> [i \in 1..Len(r.devices) |-> DeviceDetails(r, r.devices[i])]]

\* ServerDetails.StorageDevice(uuid): the attached device of that storage, or nil.
StorageDevice(details, uuid) ==
    IF \E i \in 1..Len(details.StorageDevices) : details.StorageDevices[i].UUID = uuid
    THEN LET i == CHOOSE j \in 1..Len(details.StorageDevices) :
                     details.StorageDevices[j].UUID = uuid
         IN details.StorageDevices[i]
    ELSE Nil

Occupied(r, address) == \E i \in 1..Len(r.devices) : r.devices[i].Address = address

\* The remote effect of an accepted DetachStorage / AttachStorage.
Detached(r, address) ==
    [r EXCEPT !.devices = SelectSeq(r.devices, LAMBDA x : x.Address # address)]
Attached(r, address, uuid, type) ==
    [r EXCEPT !.devices = Append(r.devices, [UUID |-> uuid, Address |-> address, Type |-> type])]

\* One request in the log: the client call, the part of the handler that made
\* it, its arguments, whether it succeeded, and the server state it was issued at.
Req(name, part, args, ok) ==
    [req |-> name, part |-> part, args |-> args, ok |-> ok, at |-> ""]
NoArgs == [none |-> TRUE]

(***************************************************************************)
(* The resource data.                                                       *)
(***************************************************************************)
\* d.Get("template.0.<f>"): the field, or the zero value without a template block.
TemplateGet(dd, f, zero) == IF Len(dd.template) > 0 THEN dd.template[1][f] ELSE zero
TemplateId(dd) == TemplateGet(dd, "id", "")

\* d.HasChange(key): the prior state and the data differ at the key.
HasChangeTemplate(f, zero) == TemplateGet(prior, f, zero) # TemplateGet(d, f, zero)
HasChangeStorageDevices == prior.storage_devices # d.storage_devices

\* schema.Set.Difference: the elements of s that are not in other.
Difference(s, other) == {x \in s : x \notin other}

\* The data of a resource that is not created yet, before any configuration.
EmptyData ==
    [id |-> "", hostname |-> "", title |-> "", zone |-> "", cpu |-> 0, mem |-> 0,
     plan |-> "", firewall |-> FALSE,
     network_interface |-> <<>>, template |-> <<>>, storage_devices |-> {},
     conn |-> Nil]

(***************************************************************************)
(* Read (resourceUpCloudServerRead).                                        *)
(***************************************************************************)
\* A translation that emits bootable for every interface, an empty tri-state
\* as false.
TranslateInterfaceDefaulting(iface) ==
    ("ip_address_family" :> iface.Family) @@ ("ip_address" :> iface.Address)
    @@ (IF ~Empty(iface.Floating)
        THEN "ip_address_floating" :> Bool(iface.Floating) ELSE <<>>)
    @@ ("mac_address" :> iface.MAC) @@ ("network" :> iface.Network)
    @@ ("type" :> iface.Type)
    @@ ("bootable" :> Bool(iface.Bootable))
    @@ (IF ~Empty(iface.SourceIPFiltering)
        THEN "source_ip_filtering" :> Bool(iface.SourceIPFiltering) ELSE <<>>)

\* The map Read emits for one remote interface.
TranslateInterface(iface) ==
    ("ip_address_family" :> iface.Family) @@ ("ip_address" :> iface.Address)
    @@ (IF ~Empty(iface.Floating)
        THEN "ip_address_floating" :> Bool(iface.Floating) ELSE <<>>)
    @@ ("mac_address" :> iface.MAC) @@ ("network" :> iface.Network)
    @@ ("type" :> iface.Type)
    @@ (IF ~Empty(iface.Bootable) THEN "bootable" :> Bool(iface.Bootable) ELSE <<>>)
    @@ (IF ~Empty(iface.SourceIPFiltering)
        THEN "source_ip_filtering" :> Bool(iface.SourceIPFiltering) ELSE <<>>)

\* The condition under which the loop assigns connIP.
IsConnInterface(iface) == iface.Type = "public" /\ iface.Family = "IPv4"

\* The interface loop: the emitted maps and connIP after interfaces i..Len.
RECURSIVE ReadInterfaces(_, _, _, _)
ReadInterfaces(ifaces, i, networkInterfaces, connIP) ==
    IF i > Len(ifaces)
    THEN [networkInterfaces |-> networkInterfaces, connIP |-> connIP]
    ELSE ReadInterfaces(ifaces, i + 1,
             Append(networkInterfaces, TranslateInterface(ifaces[i])),
             IF IsConnInterface(ifaces[i]) THEN ifaces[i].Address ELSE connIP)

\* A test that takes the boot device for the template, recorded or not.
IsBootDevice(dd, serverStorage) == serverStorage.UUID = TemplateUUID

\* The test that makes a remote device the template.
IsTemplateDevice(dd, serverStorage) == serverStorage.UUID = TemplateId(dd)

\* The storage loop: the data and the storageDevices list after devices i..Len.
RECURSIVE ReadStorageDevices(_, _, _, _)
ReadStorageDevices(dd, devs, i, storageDevices) ==
    IF i > Len(devs)
    THEN [d |-> dd, storageDevices |-> storageDevices]
    ELSE IF IsTemplateDevice(dd, devs[i])
         THEN ReadStorageDevices(
                  [dd EXCEPT !.template =
                      <<[address |-> devs[i].Address, id |-> devs[i].UUID,
                         size |-> devs[i].Size, title |-> devs[i].Title,
                         storage |-> TemplateGet(dd, "storage", ""),
                         tier |-> devs[i].Tier,
                         backup_rule |-> TemplateGet(dd, "backup_rule", "")]>>],
                  devs, i + 1, storageDevices)
         ELSE ReadStorageDevices(dd, devs, i + 1,
                  Append(storageDevices,
                         [address |-> devs[i].Address, storage |-> devs[i].UUID,
                          type |-> devs[i].Type]))

\* The data after Read has processed the details it fetched.
ReadData(dd, details) ==
    LET scalars == [dd EXCEPT !.hostname = details.Hostname, !.title = details.Title,
                              !.zone = details.Zone, !.cpu = details.CoreNumber,
                              !.mem = details.MemoryAmount]
        ni == ReadInterfaces(details.Interfaces, 1, <<>>, "")
        withNi == IF Len(ni.networkInterfaces) > 0
                  THEN [scalars EXCEPT !.network_interface = ni.networkInterfaces]
                  ELSE scalars
        st == ReadStorageDevices(withNi, details.StorageDevices, 1, <<>>)
    IN [st.d EXCEPT !.storage_devices = Range(st.storageDevices),
                    !.conn = [host |-> ni.connIP, password |-> "", type |-> "ssh",
                              user |-> "root"]]

\* A Read that clears the ID whenever GetServerDetails fails.
ReadDroppingOnError ==
    /\ pc = "read"
    /\ \/ /\ remote.exists
          /\ d' = ReadData(d, DetailsOf(remote))
          /\ log' = Append(log, [Req("GetServerDetails", "read", NoArgs, TRUE)
                                    EXCEPT !.at = remote.state])
          /\ ret' = "ok"
       \/ /\ log' = Append(log, [Req("GetServerDetails", "read", NoArgs, FALSE)
                                    EXCEPT !.at = remote.state])
          /\ ret' = "error"
          /\ d' = [d EXCEPT !.id = ""]
    /\ pc' = "done"
    /\ UNCHANGED <<retry, op, prior, remote, serverDetails, server, err, toDetach, toAttach>>

\* Read, also as the tail call of Create and Update.
Read ==
    /\ pc = "read"
    /\ \/ /\ remote.exists
          /\ d' = ReadData(d, DetailsOf(remote))
          /\ log' = Append(log, [Req("GetServerDetails", "read", NoArgs, TRUE)
                                    EXCEPT !.at = remote.state])
          /\ ret' = "ok"
       \/ /\ log' = Append(log, [Req("GetServerDetails", "read", NoArgs, FALSE)
                                    EXCEPT !.at = remote.state])
          /\ ret' = "error"
          /\ d' = d
    /\ pc' = "done"
    /\ UNCHANGED <<retry, op, prior, remote, serverDetails, server, err, toDetach, toAttach>>

(***************************************************************************)
(* The server state guard (server.VerifyServerStopped / VerifyServerStarted)*)
(***************************************************************************)
\* The outcomes of a guard call that wants the server in state target: a no-op
\* when it is there already; else a stop/start request and a wait, which may
\* time out although the remote system accepted the request.
GuardOutcomes(r, target) ==
    IF r.state = target
    THEN {[ok |-> TRUE, remote |-> r], [ok |-> FALSE, remote |-> r]}
    ELSE {[ok |-> TRUE, remote |-> [r EXCEPT !.state = target]],
          [ok |-> FALSE, remote |-> r],
          [ok |-> FALSE, remote |-> [r EXCEPT !.state = target]]}

VerifyServerStopped(r) == GuardOutcomes(r, "stopped")
VerifyServerStarted(r) == GuardOutcomes(r, "started")

(***************************************************************************)
(* Update (resourceUpCloudServerUpdate).                                    *)
(***************************************************************************)
\* After with the attach loop placed before the detach loop.
AfterAttachFirst(p) ==
    CASE p = "u_get" -> "u_stop"
      [] p = "u_stop" -> "u_modify"
      [] p = "u_modify" -> "u_template_modify"
      [] p = "u_template_modify" -> "u_template_detach"
      [] p = "u_template_detach" -> "u_template_attach"
      [] p = "u_template_attach" -> "u_devices"
      [] p = "u_devices" -> "u_attach"
      [] p = "u_attach" -> "u_detach"
      [] p = "u_detach" -> "u_start"
      [] p = "u_start" -> "read"

\* After with ModifyServer placed before the stop guard.
AfterModifyFirst(p) ==
    CASE p = "u_get" -> "u_modify"
      [] p = "u_modify" -> "u_stop"
      [] p = "u_stop" -> "u_template_modify"
      [] p = "u_template_modify" -> "u_template_detach"
      [] p = "u_template_detach" -> "u_template_attach"
      [] p = "u_template_attach" -> "u_devices"
      [] p = "u_devices" -> "u_detach"
      [] p = "u_detach" -> "u_attach"
      [] p = "u_attach" -> "u_start"
      [] p = "u_start" -> "read"

\* After with the template storage deleted before the server.
AfterDeleteStorageFirst(p) ==
    CASE p = "d_stop" -> "d_storage"
      [] p = "d_storage" -> "d_delete"
      [] p = "d_delete" -> "done"

\* The order of the handlers' statements: the position that follows position p.
After(p) ==
    CASE p = "u_get" -> "u_stop"
      [] p = "u_stop" -> "u_modify"
      [] p = "u_modify" -> "u_template_modify"
      [] p = "u_template_modify" -> "u_template_detach"
      [] p = "u_template_detach" -> "u_template_attach"
      [] p = "u_template_attach" -> "u_devices"
      [] p = "u_devices" -> "u_detach"
      [] p = "u_detach" -> "u_attach"
      [] p = "u_attach" -> "u_start"
      [] p = "u_start" -> "read"
      [] p = "c_build" -> "c_create"
      [] p = "c_create" -> "c_wait"
      [] p = "c_wait" -> "c_template"
      [] p = "c_template" -> "read"
      [] p = "d_stop" -> "d_delete"
      [] p = "d_delete" -> "d_storage"
      [] p = "d_storage" -> "done"

\* ReturnError that restarts the server before it returns the error.
ReturnErrorRestarting(e) ==
    /\ log' = log \o <<[e EXCEPT !.at = remote.state],
                       [Req("VerifyServerStarted", "guard", NoArgs, TRUE)
                           EXCEPT !.at = remote.state]>>
    /\ ret' = "error"
    /\ pc' = "done"

\* return diag.FromErr(err) after the failed request e.
ReturnError(e) ==
    /\ log' = Append(log, [e EXCEPT !.at = remote.state])
    /\ ret' = "error"
    /\ pc' = "done"

\* The request succeeded: go on at position next.
Proceed(e, next) ==
    /\ log' = Append(log, [e EXCEPT !.at = remote.state])
    /\ ret' = ret
    /\ pc' = next

\* No request at this position: go on at position next.
Skip(next) ==
    /\ log' = log
    /\ ret' = ret
    /\ pc' = next

UpdateGetServerDetails ==
    /\ pc = "u_get"
    /\ \/ /\ remote.exists
          /\ serverDetails' = DetailsOf(remote)
          /\ Proceed(Req("GetServerDetails", "update", NoArgs, TRUE), After("u_get"))
       \/ /\ serverDetails' = serverDetails
          /\ ReturnError(Req("GetServerDetails", "update", NoArgs, FALSE))
    /\ UNCHANGED <<retry, op, prior, d, remote, server, err, toDetach, toAttach>>

UpdateVerifyServerStopped ==
    /\ pc = "u_stop"
    /\ \E o \in VerifyServerStopped(remote) :
          /\ remote' = o.remote
          /\ IF o.ok
             THEN Proceed(Req("VerifyServerStopped", "guard", NoArgs, TRUE), After("u_stop"))
             ELSE ReturnError(Req("VerifyServerStopped", "guard", NoArgs, FALSE))
    /\ UNCHANGED <<retry, op, prior, d, serverDetails, server, err, toDetach, toAttach>>

\* A request that carries cpu and mem next to the plan.
ModifyServerRequestWithAll(dd) ==
    [UUID |-> dd.id,
     Firewall |-> IF dd.firewall THEN "on" ELSE "off",
     Plan |-> dd.plan,
     CoreNumber |-> dd.cpu,
     MemoryAmount |-> dd.mem,
     Hostname |-> dd.hostname]

\* The ModifyServerRequest Update builds from the data.
ModifyServerRequest(dd) ==
    [UUID |-> dd.id,
     Firewall |-> IF dd.firewall THEN "on" ELSE "off",
     Plan |-> IF dd.plan # "" THEN dd.plan ELSE "",
     CoreNumber |-> IF dd.plan # "" THEN 0 ELSE dd.cpu,
     MemoryAmount |-> IF dd.plan # "" THEN 0 ELSE dd.mem,
     Hostname |-> dd.hostname]

\* The remote server after it accepted the ModifyServerRequest r.
Modified(rem, r) ==
    [rem EXCEPT !.hostname = r.Hostname,
                !.firewall = r.Firewall,
                !.plan = IF r.Plan # "" THEN r.Plan ELSE "custom",
                !.cpu = IF r.Plan # "" THEN 1 ELSE r.CoreNumber,
                !.mem = IF r.Plan # "" THEN 1024 ELSE r.MemoryAmount]

UpdateModifyServer ==
    /\ pc = "u_modify"
    /\ LET r == ModifyServerRequest(d) IN
       \/ /\ remote' = Modified(remote, r)
          /\ Proceed(Req("ModifyServer", "server", r, TRUE), After("u_modify"))
       \/ /\ remote' = remote
          /\ ReturnError(Req("ModifyServer", "server", r, FALSE))
    /\ UNCHANGED <<retry, op, prior, d, serverDetails, server, err, toDetach, toAttach>>

\* A test that misses a change of the title.
TemplateResized == HasChangeTemplate("size", 0) \/ HasChangeTemplate("backup_rule", "")

\* d.HasChanges("template.0.title", "template.0.size", "template.0.backup_rule")
TemplateModified ==
    \/ HasChangeTemplate("title", "")
    \/ HasChangeTemplate("size", 0)
    \/ HasChangeTemplate("backup_rule", "")

ModifyStorageRequest(dd) ==
    [UUID |-> TemplateGet(dd, "id", ""), Size |-> TemplateGet(dd, "size", 0),
     Title |-> TemplateGet(dd, "title", ""),
     BackupRule |-> TemplateGet(dd, "backup_rule", "")]

UpdateModifyStorage ==
    /\ pc = "u_template_modify"
    /\ IF TemplateModified
       THEN LET r == ModifyStorageRequest(d) IN
            \/ /\ remote' = [remote EXCEPT !.storage =
                                [size |-> r.Size, title |-> r.Title,
                                 backup_rule |-> r.BackupRule]]
               /\ Proceed(Req("ModifyStorage", "template", r, TRUE), After("u_template_modify"))
            \/ /\ remote' = remote
               /\ ReturnError(Req("ModifyStorage", "template", r, FALSE))
       ELSE /\ remote' = remote
            /\ Skip(After("u_template_modify"))
    /\ UNCHANGED <<retry, op, prior, d, serverDetails, server, err, toDetach, toAttach>>

\* client.DetachStorage at position part: accepted only for an occupied address.
DetachStorage(part, address, next) ==
    LET r == [ServerUUID |-> d.id, Address |-> address] IN
    \/ /\ Occupied(remote, address)
       /\ remote' = Detached(remote, address)
       /\ Proceed(Req("DetachStorage", part, r, TRUE), next)
    \/ /\ remote' = remote
       /\ ReturnError(Req("DetachStorage", part, r, FALSE))

\* client.AttachStorage at position part: accepted only for a vacant address.
AttachStorage(part, address, uuid, type, next) ==
    LET r == [ServerUUID |-> d.id, Address |-> address, StorageUUID |-> uuid,
              Type |-> type] IN
    \/ /\ ~Occupied(remote, address)
       /\ remote' = Attached(remote, address, uuid, IF type = "" THEN "disk" ELSE type)
       /\ Proceed(Req("AttachStorage", part, r, TRUE), next)
    \/ /\ remote' = remote
       /\ ReturnError(Req("AttachStorage", part, r, FALSE))

UpdateTemplateDetach ==
    /\ pc = "u_template_detach"
    /\ IF HasChangeTemplate("address", "")
       THEN DetachStorage("template", TemplateGet(prior, "address", ""),
                          After("u_template_detach"))
       ELSE /\ remote' = remote
            /\ Skip(After("u_template_attach"))
    /\ UNCHANGED <<retry, op, prior, d, serverDetails, server, err, toDetach, toAttach>>

UpdateTemplateAttach ==
    /\ pc = "u_template_attach"
    /\ AttachStorage("template", TemplateGet(d, "address", ""), TemplateId(d), "",
                     After("u_template_attach"))
    /\ UNCHANGED <<retry, op, prior, d, serverDetails, server, err, toDetach, toAttach>>

\* ToDetach detaching every previous device; ToAttach with the sets swapped.
ToDetachAll(o, n) == o
ToAttachSwapped(o, n) == Difference(o, n)

\* The devices the detach loop ranges over, and those the attach loop ranges over.
ToDetach(o, n) == Difference(o, n)
ToAttach(o, n) == Difference(n, o)

\* if d.HasChange("storage_devices"): the two differences the loops range over.
UpdateStorageDevices ==
    /\ pc = "u_devices"
    /\ IF HasChangeStorageDevices
       THEN /\ toDetach' = ToDetach(prior.storage_devices, d.storage_devices)
            /\ toAttach' = ToAttach(prior.storage_devices, d.storage_devices)
       ELSE /\ toDetach' = {}
            /\ toAttach' = {}
    /\ Skip(After("u_devices"))
    /\ UNCHANGED <<retry, op, prior, d, remote, serverDetails, server, err>>

\* OnLiveServer without the lookup.
OnLiveServerUnchecked(storageDevice) == TRUE

\* The device is still attached according to the details fetched on entry.
OnLiveServer(storageDevice) == StorageDevice(serverDetails, storageDevice.storage) # Nil

\* One iteration of the detach loop (the set's List() order is any order).
UpdateDetachStorage ==
    /\ pc = "u_detach"
    /\ IF toDetach = {}
       THEN /\ toDetach' = toDetach
            /\ remote' = remote
            /\ Skip(After("u_detach"))
       ELSE \E storageDevice \in toDetach :
            /\ toDetach' = toDetach \ {storageDevice}
            /\ IF OnLiveServer(storageDevice)
               THEN DetachStorage("devices", storageDevice.address, "u_detach")
               ELSE /\ remote' = remote
                    /\ Skip("u_detach")
    /\ UNCHANGED <<retry, op, prior, d, serverDetails, server, err, toAttach>>

\* One iteration of the attach loop.
UpdateAttachStorage ==
    /\ pc = "u_attach"
    /\ IF toAttach = {}
       THEN /\ toAttach' = toAttach
            /\ remote' = remote
            /\ Skip(After("u_attach"))
       ELSE \E storageDevice \in toAttach :
            /\ toAttach' = toAttach \ {storageDevice}
            /\ AttachStorage("devices", storageDevice.address, storageDevice.storage,
                             storageDevice.type, "u_attach")
    /\ UNCHANGED <<retry, op, prior, d, serverDetails, server, err, toDetach>>

UpdateVerifyServerStarted ==
    /\ pc = "u_start"
    /\ \E o \in VerifyServerStarted(remote) :
          /\ remote' = o.remote
          /\ IF o.ok
             THEN Proceed(Req("VerifyServerStarted", "guard", NoArgs, TRUE), After("u_start"))
             ELSE ReturnError(Req("VerifyServerStarted", "guard", NoArgs, FALSE))
    /\ UNCHANGED <<retry, op, prior, d, serverDetails, server, err, toDetach, toAttach>>

(***************************************************************************)
(* Update is invoked on a resource whose prior state was read from the      *)
(* remote server; the data carries the planned values; the remote server    *)
(* may have lost attached devices since the prior state was read.           *)
(***************************************************************************)
\* The additional devices of the prior state: none, the first or both of these
\* (storage and address names are interchangeable, so other prior sets of up
\* to two devices add no case).
Installed ==
    <<[storage |-> "A", address |-> "ide:0", type |-> "disk"],
      [storage |-> "B", address |-> "scsi:1", type |-> "disk"]>>
PrevDeviceSets == {{Installed[i] : i \in 1..n} : n \in 0..Len(Installed)}

BootDevice(address) == [UUID |-> TemplateUUID, Address |-> address, Type |-> "disk"]
RemoteDevice(x) == [UUID |-> x.storage, Address |-> x.address, Type |-> x.type]

\* A remote server with the given attached devices and interfaces.
RemoteServer(state, devices, interfaces) ==
    [exists |-> TRUE, state |-> state, devices |-> devices, interfaces |-> interfaces,
     hostname |-> "h1", plan |-> "custom", cpu |-> 1, mem |-> 1024, firewall |-> "off",
     storage |-> TemplateStorage0, storage_exists |-> TRUE]

\* The data of a resource with the given ID, and a template block whose id is
\* tid when hasTemplate.
TrackedData(hasTemplate, tid) ==
    [EmptyData EXCEPT
        !.id = ServerUUID,
        !.template = IF hasTemplate
                     THEN <<[id |-> tid, address |-> "", size |-> 0, title |-> "",
                             storage |-> "01000000-0000-4000-8000-000030200200",
                             tier |-> "", backup_rule |-> ""]>>
                     ELSE <<>>]

PublicIPv4 == [Type |-> "public", Family |-> "IPv4", Tri |-> <<"empty", "true", "false">>]

InitUpdate ==
    \E prevDevs \in PrevDeviceSets, newDevs \in DeviceSets, hasTemplate \in BOOLEAN,
       plan \in Plans, state \in {"started", "stopped"} :
    \E gone \in SUBSET prevDevs, address \in TemplateAddresses, size \in Sizes,
       title \in Titles, backup_rule \in BackupRules :
       LET remote0 == RemoteServer(state,
                          (IF hasTemplate THEN <<BootDevice("virtio:0")>> ELSE <<>>)
                              \o SetToSeq({RemoteDevice(x) : x \in prevDevs}),
                          <<MkIface(PublicIPv4, 1)>>)
           prior0 == ReadData(TrackedData(hasTemplate, TemplateUUID), DetailsOf(remote0))
       IN /\ hasTemplate \/ (address = "virtio:0" /\ size = 10 /\ title = "t1"
                             /\ backup_rule = "")
          /\ prior = prior0
          /\ d = [prior0 EXCEPT
                    !.storage_devices = newDevs,
                    !.template = IF hasTemplate
                                 THEN <<[prior0.template[1] EXCEPT
                                            !.address = address, !.size = size,
                                            !.title = title, !.backup_rule = backup_rule]>>
                                 ELSE <<>>,
                    !.plan = plan, !.firewall = TRUE, !.hostname = "h2",
                    !.cpu = 2, !.mem = 2048]
          /\ remote = [remote0 EXCEPT !.devices =
                          SelectSeq(remote0.devices,
                                    LAMBDA x : x \notin {RemoteDevice(y) : y \in gone})]
    /\ op = "update"
    /\ pc = "u_get"
    /\ serverDetails = Nil
    /\ server = Nil
    /\ err = ""
    /\ toDetach = {}
    /\ toAttach = {}
    /\ log = <<>>
    /\ ret = "none"
    /\ retry = NoRetry

NextUpdate ==
    \/ UpdateGetServerDetails
    \/ UpdateVerifyServerStopped
    \/ UpdateModifyServer
    \/ UpdateModifyStorage
    \/ UpdateTemplateDetach
    \/ UpdateTemplateAttach
    \/ UpdateStorageDevices
    \/ UpdateDetachStorage
    \/ UpdateAttachStorage
    \/ UpdateVerifyServerStarted
    \/ Read

SpecUpdate == InitUpdate /\ [][NextUpdate]_vars

(***************************************************************************)
(* Properties of Update.                                                    *)
(***************************************************************************)
Idx == 1..Len(log)
IsDeviceDetach(e) == e.req = "DetachStorage" /\ e.part = "devices"
IsDeviceAttach(e) == e.req = "AttachStorage" /\ e.part = "devices"
IsMutation(e) == e.req \in {"ModifyServer", "ModifyStorage", "DetachStorage", "AttachStorage"}

\* Update has not replaced the planned data by what Read found.
DataAsPlanned == op = "update" /\ serverDetails # Nil /\ ~(pc = "done" /\ ret = "ok")

\* The storage UUIDs attached to the server when Update fetched its details.
LiveStorages ==
    {serverDetails.StorageDevices[i].UUID : i \in 1..Len(serverDetails.StorageDevices)}

ExpectedDetach ==
    {x \in prior.storage_devices \ d.storage_devices : x.storage \in LiveStorages}
ExpectedAttach == d.storage_devices \ prior.storage_devices

DetachArgs(x) == [ServerUUID |-> d.id, Address |-> x.address]
AttachArgs(x) ==
    [ServerUUID |-> d.id, Address |-> x.address, StorageUUID |-> x.storage, Type |-> x.type]

\* C1: the requests Update issues for additional devices are one DetachStorage
\* (by address) per device of previous \ new whose storage is on the live
\* server and one AttachStorage (address, storage, type) per device of
\* new \ previous, and no other: never a request outside these, never two for
\* one device, and all of them once both loops have run.
C1_DeviceRequestsExact ==
    DataAsPlanned =>
        LET det == {i \in Idx : IsDeviceDetach(log[i])}
            att == {i \in Idx : IsDeviceAttach(log[i])}
        IN /\ \A i \in det : \E x \in ExpectedDetach : log[i].args = DetachArgs(x)
           /\ \A i \in att : \E x \in ExpectedAttach : log[i].args = AttachArgs(x)
           /\ \A i, j \in det \cup att : log[i].args = log[j].args => i = j
           /\ pc \in {"u_start", "read"} =>
                 /\ \A x \in ExpectedDetach : \E i \in det : log[i].args = DetachArgs(x)
                 /\ \A x \in ExpectedAttach : \E i \in att : log[i].args = AttachArgs(x)

\* The scenario of the claim: previous {A@ide:0, B@scsi:1}, new {B@scsi:1, C@virtio:2},
\* both loops done with one detach of ide:0 and one attach of C at virtio:2.
C1_Witness ==
    /\ op = "update" /\ pc = "u_start"
    /\ prior.storage_devices = {Installed[1], Installed[2]}
    /\ d.storage_devices =
          {Installed[2], [storage |-> "C", address |-> "virtio:2", type |-> "disk"]}
    /\ {log[i].args : i \in {j \in Idx : IsDeviceDetach(log[j])}}
          = {[ServerUUID |-> ServerUUID, Address |-> "ide:0"]}
    /\ {log[i].args : i \in {j \in Idx : IsDeviceAttach(log[j])}}
          = {[ServerUUID |-> ServerUUID, Address |-> "virtio:2", StorageUUID |-> "C",
              Type |-> "disk"]}
    /\ Cardinality({j \in Idx : log[j].part = "devices"}) = 2

\* C2: in the log of an Update no DetachStorage for an additional device comes
\* after an AttachStorage for an additional device.
C2_DetachesBeforeAttaches ==
    op = "update" =>
        \A i, j \in Idx : IsDeviceAttach(log[i]) /\ IsDeviceDetach(log[j]) => j < i

C2_Witness ==
    /\ op = "update"
    /\ Cardinality({i \in Idx : IsDeviceDetach(log[i])}) >= 2
    /\ Cardinality({i \in Idx : IsDeviceAttach(log[i])}) >= 2

\* C3: the two sets Update computes from (previous, new) satisfy
\* toAttach \cap toDetach = {} and toAttach \cup (previous \cap new) = new.
C3_DifferenceAlgebra ==
    [][pc = "u_devices" /\ HasChangeStorageDevices =>
          /\ toAttach' \cap toDetach' = {}
          /\ toAttach' \cup (prior.storage_devices \cap d.storage_devices)
                = d.storage_devices]_vars

\* Both sets just computed and non-empty, with a device common to previous and new.
C3_Witness ==
    /\ op = "update" /\ pc = "u_detach"
    /\ toDetach # {} /\ toAttach # {}
    /\ prior.storage_devices \cap d.storage_devices # {}
    /\ \A i \in Idx : log[i].part # "devices"

\* C4: a device of previous \ new whose storage is not on the live server gets
\* no DetachStorage request, and Update never fails without a failed request
\* (so not on account of such a device).
C4_AbsentDeviceSkipped ==
    DataAsPlanned =>
        /\ \A x \in prior.storage_devices \ d.storage_devices :
              x.storage \notin LiveStorages =>
                 \A i \in Idx : IsDeviceDetach(log[i]) => log[i].args.Address # x.address
        /\ ret = "error" => Len(log) > 0 /\ ~log[Len(log)].ok

\* Update got through both loops although a device to detach was gone remotely,
\* and detached another one that was still there.
C4_Witness ==
    /\ op = "update" /\ pc = "read"
    /\ \E x \in prior.storage_devices \ d.storage_devices : x.storage \notin LiveStorages
    /\ \E i \in Idx : IsDeviceDetach(log[i])

\* C5: every ModifyServer, ModifyStorage, DetachStorage and AttachStorage of an
\* Update comes after a successful VerifyServerStopped and is issued while the
\* server is stopped; VerifyServerStarted comes after all of them, all
\* successful; Read comes only after a successful VerifyServerStarted.
C5_GuardBracketsMutations ==
    op = "update" =>
        \A j \in Idx :
            /\ IsMutation(log[j]) =>
                  /\ \E i \in 1..(j - 1) : log[i].req = "VerifyServerStopped" /\ log[i].ok
                  /\ log[j].at = "stopped"
            /\ log[j].req = "VerifyServerStarted" =>
                  /\ \A i \in 1..(j - 1) : IsMutation(log[i]) => log[i].ok
                  /\ \A i \in (j + 1)..Len(log) : ~IsMutation(log[i])
            /\ log[j].part = "read" =>
                  \E i \in 1..(j - 1) : log[i].req = "VerifyServerStarted" /\ log[i].ok

\* A complete Update that modified the template storage, moved it and detached
\* and attached an additional device.
C5_Witness ==
    /\ op = "update" /\ pc = "done" /\ ret = "ok"
    /\ \E i \in Idx : log[i].req = "ModifyStorage"
    /\ \E i \in Idx : log[i].req = "AttachStorage" /\ log[i].part = "template"
    /\ \E i \in Idx : IsDeviceDetach(log[i])
    /\ \E i \in Idx : IsDeviceAttach(log[i])

\* The device list that results from the list devs by the successful
\* DetachStorage and AttachStorage requests of the log l, from entry i on.
RECURSIVE Replay(_, _, _)
Replay(devs, l, i) ==
    IF i > Len(l) THEN devs
    ELSE Replay(
            IF l[i].ok /\ l[i].req = "DetachStorage"
            THEN SelectSeq(devs, LAMBDA x : x.Address # l[i].args.Address)
            ELSE IF l[i].ok /\ l[i].req = "AttachStorage"
            THEN Append(devs, [UUID |-> l[i].args.StorageUUID,
                               Address |-> l[i].args.Address,
                               Type |-> IF l[i].args.Type = "" THEN "disk"
                                        ELSE l[i].args.Type])
            ELSE devs,
            l, i + 1)

EntryDevices ==
    [i \in 1..Len(serverDetails.StorageDevices) |->
        [UUID |-> serverDetails.StorageDevices[i].UUID,
         Address |-> serverDetails.StorageDevices[i].Address,
         Type |-> serverDetails.StorageDevices[i].Type]]

\* C6: a failed request is the last request of an Update, which then has
\* returned the error: nothing is issued after it (no VerifyServerStarted, no
\* Read); and what the earlier requests did stays done: the remote devices are
\* the devices found on entry with every successful detach and attach applied,
\* and a successful ModifyServer's hostname stays.
C6_FailureAborts ==
    op = "update" =>
        /\ \A i \in 1..(Len(log) - 1) : log[i].ok
        /\ (Len(log) > 0 /\ ~log[Len(log)].ok) => (ret = "error" /\ pc = "done")
        /\ ret = "error" => (Len(log) > 0 /\ ~log[Len(log)].ok)
        /\ serverDetails # Nil => remote.devices = Replay(EntryDevices, log, 1)
        /\ \A i \in Idx : log[i].req = "ModifyServer" /\ log[i].ok =>
              remote.hostname = log[i].args.Hostname

\* An Update that failed at an attach after a successful detach, and left the
\* server stopped.
C6_Witness ==
    /\ op = "update" /\ ret = "error" /\ pc = "done"
    /\ log[Len(log)].req = "AttachStorage" /\ log[Len(log)].part = "devices"
    /\ \E i \in Idx : IsDeviceDetach(log[i]) /\ log[i].ok
    /\ remote.state = "stopped"
    /\ Len(remote.devices) < Len(serverDetails.StorageDevices)

\* C15: the ModifyServer request of Update carries the plan and neither cpu
\* nor mem when plan is set, and cpu and mem and no plan when it is not.
C15_PlanOrCpuMem ==
    DataAsPlanned =>
        \A i \in Idx :
            log[i].req = "ModifyServer" =>
                IF d.plan # ""
                THEN /\ log[i].args.Plan = d.plan
                     /\ log[i].args.CoreNumber = 0
                     /\ log[i].args.MemoryAmount = 0
                ELSE /\ log[i].args.Plan = ""
                     /\ log[i].args.CoreNumber = d.cpu
                     /\ log[i].args.MemoryAmount = d.mem

\* ModifyServer was accepted for data with a plan and a changed cpu and mem.
C15_Witness ==
    /\ DataAsPlanned
    /\ d.plan # "" /\ d.cpu # prior.cpu /\ d.mem # prior.mem
    /\ \E i \in Idx : log[i].req = "ModifyServer" /\ log[i].ok
    /\ remote.plan = d.plan

\* The template requests in the log.
IsTemplateModify(e) == e.req = "ModifyStorage" /\ e.part = "template"
IsTemplateDetach(e) == e.req = "DetachStorage" /\ e.part = "template"
IsTemplateAttach(e) == e.req = "AttachStorage" /\ e.part = "template"

\* The planned template differs from the prior one in title, size or backup
\* rule; in its address.
TemplateAttrsChanged ==
    \/ TemplateGet(prior, "title", "") # TemplateGet(d, "title", "")
    \/ TemplateGet(prior, "size", 0) # TemplateGet(d, "size", 0)
    \/ TemplateGet(prior, "backup_rule", "") # TemplateGet(d, "backup_rule", "")
TemplateAddressChanged == TemplateGet(prior, "address", "") # TemplateGet(d, "address", "")

\* Update has got past its template steps.
PastTemplate ==
    op = "update" /\ pc \in {"u_devices", "u_detach", "u_attach", "u_start", "read"}

\* C17: Update issues ModifyStorage for the template's UUID, with the new
\* size, title and backup rule, exactly if one of the three changed; a changed
\* template address makes it issue DetachStorage at the old address and then
\* AttachStorage at the new address with the template's UUID, the detach
\* before the attach; with both changes both take effect remotely, the
\* modify first.
C17_TemplateReconciled ==
    DataAsPlanned =>
        /\ \A i \in Idx :
              /\ IsTemplateModify(log[i]) =>
                    /\ TemplateAttrsChanged
                    /\ log[i].args = [UUID |-> TemplateUUID,
                                      Size |-> d.template[1].size,
                                      Title |-> d.template[1].title,
                                      BackupRule |-> d.template[1].backup_rule]
              /\ IsTemplateDetach(log[i]) =>
                    /\ TemplateAddressChanged
                    /\ log[i].args.Address = prior.template[1].address
                    /\ \A j \in 1..i : IsTemplateModify(log[j]) => j < i
              /\ IsTemplateAttach(log[i]) =>
                    /\ log[i].args.Address = d.template[1].address
                    /\ log[i].args.StorageUUID = TemplateUUID
                    /\ \E j \in 1..(i - 1) : IsTemplateDetach(log[j]) /\ log[j].ok
                    /\ \A j \in Idx : (IsTemplateDetach(log[j]) \/ IsTemplateModify(log[j]))
                                          => j < i
        /\ PastTemplate =>
              /\ TemplateAttrsChanged =>
                    /\ \E i \in Idx : IsTemplateModify(log[i]) /\ log[i].ok
                    /\ remote.storage = [size |-> d.template[1].size,
                                         title |-> d.template[1].title,
                                         backup_rule |-> d.template[1].backup_rule]
              /\ TemplateAddressChanged =>
                    /\ \E i, j \in Idx :
                          /\ i < j
                          /\ IsTemplateDetach(log[i]) /\ log[i].ok
                          /\ IsTemplateAttach(log[j]) /\ log[j].ok
                    /\ \E k \in 1..Len(remote.devices) :
                          remote.devices[k] = BootDevice(d.template[1].address)
                    /\ ~\E k \in 1..Len(remote.devices) :
                          remote.devices[k] = BootDevice(prior.template[1].address)

\* Update changed the template's title and moved it to another address: both
\* requests were accepted, the modify before the detach and the attach.
C17_Witness ==
    /\ DataAsPlanned /\ PastTemplate
    /\ TemplateGet(prior, "title", "") # TemplateGet(d, "title", "")
    /\ TemplateAddressChanged
    /\ \E i, j, k \in Idx :
          /\ i < j /\ j < k
          /\ IsTemplateModify(log[i]) /\ IsTemplateDetach(log[j]) /\ IsTemplateAttach(log[k])
    /\ remote.storage.title = "t2"

\* C19: no AttachStorage of an Update goes to an address that is still held by
\* a device the same Update has to detach: a device of previous - new that is
\* on the server was detached before anything is attached at its address.
C19_NoAttachBeforeItsDetach ==
    DataAsPlanned =>
        \A i \in Idx :
            log[i].req = "AttachStorage" =>
                \A x \in ExpectedDetach :
                    x.address = log[i].args.Address =>
                        \E j \in 1..(i - 1) :
                            /\ IsDeviceDetach(log[j]) /\ log[j].ok
                            /\ log[j].args.Address = x.address

(***************************************************************************)
(* Delete (resourceUpCloudServerDelete).                                    *)
(***************************************************************************)
DeleteVerifyServerStopped ==
    /\ pc = "d_stop"
    /\ \E o \in VerifyServerStopped(remote) :
          /\ remote' = o.remote
          /\ IF o.ok
             THEN Proceed(Req("VerifyServerStopped", "guard", NoArgs, TRUE), After("d_stop"))
             ELSE ReturnError(Req("VerifyServerStopped", "guard", NoArgs, FALSE))
    /\ UNCHANGED <<retry, op, prior, d, serverDetails, server, err, toDetach, toAttach>>

DeleteServer ==
    /\ pc = "d_delete"
    /\ LET r == [UUID |-> d.id] IN
       \/ /\ remote' = [remote EXCEPT !.exists = FALSE, !.devices = <<>>]
          /\ Proceed(Req("DeleteServer", "server", r, TRUE), After("d_delete"))
       \/ /\ remote' = remote
          /\ ReturnError(Req("DeleteServer", "server", r, FALSE))
    /\ UNCHANGED <<retry, op, prior, d, serverDetails, server, err, toDetach, toAttach>>

\* d.GetOk("template.0"): a template block is configured.
TemplateConfigured(dd) == Len(dd.template) > 0

\* return diags at the end of Delete.
ReturnOk(next) ==
    /\ log' = log
    /\ ret' = "ok"
    /\ pc' = next

DeleteStorage ==
    /\ pc = "d_storage"
    /\ IF TemplateConfigured(d)
       THEN LET r == [UUID |-> TemplateGet(d, "id", "")] IN
            \/ /\ remote' = [remote EXCEPT !.storage_exists = FALSE]
               /\ log' = Append(log, [Req("DeleteStorage", "template", r, TRUE)
                                         EXCEPT !.at = remote.state])
               /\ ret' = "ok"
               /\ pc' = After("d_storage")
            \/ /\ remote' = remote
               /\ ReturnError(Req("DeleteStorage", "template", r, FALSE))
       ELSE /\ remote' = remote
            /\ ReturnOk(After("d_storage"))
    /\ UNCHANGED <<retry, op, prior, d, serverDetails, server, err, toDetach, toAttach>>

\* Delete is invoked on a resource whose state was read from the remote server.
InitDelete ==
    \E devs \in DeviceSets, hasTemplate \in BOOLEAN, state \in {"started", "stopped"},
       plan \in Plans :
       LET remote0 == RemoteServer(state,
                          (IF hasTemplate THEN <<BootDevice("virtio:0")>> ELSE <<>>)
                              \o SetToSeq({RemoteDevice(x) : x \in devs}),
                          <<MkIface(PublicIPv4, 1)>>)
           d0 == ReadData([TrackedData(hasTemplate, TemplateUUID) EXCEPT !.plan = plan],
                          DetailsOf(remote0))
       IN /\ prior = d0
          /\ d = d0
          /\ remote = remote0
    /\ op = "delete"
    /\ pc = "d_stop"
    /\ serverDetails = Nil
    /\ server = Nil
    /\ err = ""
    /\ toDetach = {}
    /\ toAttach = {}
    /\ log = <<>>
    /\ ret = "none"
    /\ retry = NoRetry

NextDelete ==
    \/ DeleteVerifyServerStopped
    \/ DeleteServer
    \/ DeleteStorage

SpecDelete == InitDelete /\ [][NextDelete]_vars

\* C7: Delete's requests are, in this order, VerifyServerStopped, DeleteServer
\* and DeleteStorage: each is issued only after the one before it succeeded;
\* DeleteStorage is for the template's id and is issued iff a template is
\* configured; after a failed DeleteStorage Delete has returned an error and
\* the server stays deleted.
C7_DeleteOrder ==
    op = "delete" =>
        /\ Len(log) <= 3
        /\ \A i \in Idx :
              log[i].req = <<"VerifyServerStopped", "DeleteServer", "DeleteStorage">>[i]
        /\ \A i \in 1..(Len(log) - 1) : log[i].ok
        /\ (Len(log) > 0 /\ ~log[Len(log)].ok) => (ret = "error" /\ pc = "done")
        /\ \A i \in Idx : log[i].req = "DeleteStorage" =>
              /\ TemplateConfigured(d)
              /\ log[i].args = [UUID |-> d.template[1].id]
              /\ ~remote.exists
        /\ (ret = "ok" /\ TemplateConfigured(d)) =>
              (Len(log) = 3 /\ ~remote.storage_exists)
        /\ ret = "ok" => ~remote.exists

\* The server is deleted, the template storage's deletion failed.
C7_Witness ==
    /\ op = "delete" /\ ret = "error" /\ pc = "done"
    /\ Len(log) = 3 /\ log[3].req = "DeleteStorage" /\ ~log[3].ok
    /\ ~remote.exists /\ remote.storage_exists

(***************************************************************************)
(* Update and Delete together: the handlers that change an existing server. *)
(***************************************************************************)
InitUpdateDelete == InitUpdate \/ InitDelete

NextUpdateDelete == NextUpdate \/ NextDelete

SpecUpdateDelete == InitUpdateDelete /\ [][NextUpdateDelete]_vars

NoServer == [RemoteServer("stopped", <<>>, <<>>) EXCEPT !.exists = FALSE,
                                                        !.storage_exists = FALSE]

\* return diag.FromErr(err) for an error no request of this step produced.
ReturnErr ==
    /\ log' = log
    /\ ret' = "error"
    /\ pc' = "done"

\* server.BuildServerOpts: the request is built, or the configuration is rejected.
CreateBuildServerOpts ==
    /\ pc = "c_build"
    /\ \/ Skip(After("c_build"))
       \/ ReturnErr
    /\ UNCHANGED <<retry, op, prior, d, remote, serverDetails, server, err, toDetach, toAttach>>

\* The devices the remote system attaches to the new server: the boot device
\* cloned from the template and the configured storages.
CreatedDevices(dd) ==
    (IF TemplateConfigured(dd)
     THEN {BootDevice(IF dd.template[1].address = "" THEN "virtio:0"
                      ELSE dd.template[1].address)}
     ELSE {})
    \cup {RemoteDevice(x) : x \in dd.storage_devices}

CreateServer ==
    /\ pc = "c_create"
    /\ \/ \E devices \in Perms(CreatedDevices(d)) :
             /\ remote' = RemoteServer("maintenance", devices, <<MkIface(PublicIPv4, 1)>>)
             /\ server' = DetailsOf(remote')
             /\ d' = [d EXCEPT !.id = server'.UUID]
             /\ Proceed(Req("CreateServer", "server", NoArgs, TRUE), After("c_create"))
       \/ /\ UNCHANGED <<remote, server, d>>
          /\ ReturnError(Req("CreateServer", "server", NoArgs, FALSE))
    /\ UNCHANGED <<retry, op, prior, serverDetails, err, toDetach, toAttach>>

\* server, err = client.WaitForServerState(...): the details of the started
\* server, or nil and the timeout error.
CreateWaitForServerState ==
    /\ pc = "c_wait"
    /\ LET r == [UUID |-> server.UUID, DesiredState |-> "started", Timeout |-> "25m"] IN
       \/ /\ remote' = [remote EXCEPT !.state = "started"]
          /\ server' = DetailsOf(remote')
          /\ err' = ""
          /\ Proceed(Req("WaitForServerState", "create", r, TRUE), After("c_wait"))
       \/ /\ remote' = remote
          /\ server' = Nil
          /\ err' = "timeout"
          /\ Proceed(Req("WaitForServerState", "create", r, FALSE), After("c_wait"))
    /\ UNCHANGED <<retry, op, prior, d, serverDetails, toDetach, toAttach>>

\* The expression server.StorageDevices[0] cannot be evaluated.
Panics(srv) == srv = Nil \/ Len(srv.StorageDevices) = 0

\* The template block Create sets from the payload.
TemplateFromPayload(dd, srv) ==
    <<[id |-> srv.StorageDevices[1].UUID, storage |-> dd.template[1].storage,
       address |-> "", size |-> 0, title |-> "", tier |-> "", backup_rule |-> ""]>>

\* if err != nil { return diag.FromErr(err) }, else on to Read.
ReturnIfErr ==
    IF err # "" THEN ReturnErr ELSE Skip(After("c_template"))

\* Lines 309-319: the template id is set from the payload, then err is looked at.
CreateSetTemplate ==
    /\ pc = "c_template"
    /\ IF TemplateConfigured(d)
       THEN IF Panics(server)
            THEN /\ d' = d
                 /\ log' = log
                 /\ ret' = "panic"
                 /\ pc' = "done"
            ELSE /\ d' = [d EXCEPT !.template = TemplateFromPayload(d, server)]
                 /\ ReturnIfErr
       ELSE /\ d' = d
            /\ ReturnIfErr
    /\ UNCHANGED <<retry, op, prior, remote, serverDetails, server, err, toDetach, toAttach>>

\* Create is invoked with the configuration as the data and no ID.
InitCreate ==
    \E devs \in DeviceSets, hasTemplate \in BOOLEAN, plan \in Plans,
       address \in {"", "virtio:0"} :
       /\ hasTemplate \/ address = ""
       /\ d = [EmptyData EXCEPT
                 !.hostname = "h1", !.plan = plan, !.firewall = TRUE,
                 !.cpu = IF plan = "" THEN 1 ELSE 0,
                 !.mem = IF plan = "" THEN 1024 ELSE 0,
                 !.storage_devices = devs,
                 !.template = IF hasTemplate
                              THEN <<[id |-> "", address |-> address, size |-> 10,
                                      title |-> "t1",
                                      storage |-> "01000000-0000-4000-8000-000030200200",
                                      tier |-> "", backup_rule |-> ""]>>
                              ELSE <<>>]
    /\ prior = EmptyData
    /\ remote = NoServer
    /\ op = "create"
    /\ pc = "c_build"
    /\ serverDetails = Nil
    /\ server = Nil
    /\ err = ""
    /\ toDetach = {}
    /\ toAttach = {}
    /\ log = <<>>
    /\ ret = "none"
    /\ retry = NoRetry

NextCreate ==
    \/ CreateBuildServerOpts
    \/ CreateServer
    \/ CreateWaitForServerState
    \/ CreateSetTemplate
    \/ Read

SpecCreate == InitCreate /\ [][NextCreate]_vars

\* C8: the ID CreateServer assigned is in the data when the wait is called, and
\* a Create whose wait failed has returned the error, with the ID still in the
\* data and without a Read.
C8_TimeoutKeepsId ==
    op = "create" =>
        /\ \A i \in Idx : log[i].req = "WaitForServerState" => d.id = ServerUUID
        /\ (pc = "done" /\ \E i \in Idx : log[i].req = "WaitForServerState" /\ ~log[i].ok) =>
              /\ ret = "error"
              /\ d.id = ServerUUID
              /\ \A i \in Idx : log[i].part # "read"

\* C9: after a successful Create with a template the template block has the id
\* and the address of the boot device the remote system created, and the boot
\* device is not among storage_devices.
C9_TemplateIsBootDevice ==
    (op = "create" /\ pc = "done" /\ ret = "ok" /\ TemplateConfigured(d)) =>
        /\ d.template[1].id = TemplateUUID
        /\ \E i \in 1..Len(remote.devices) :
              /\ remote.devices[i].UUID = TemplateUUID
              /\ remote.devices[i].Address = d.template[1].address
        /\ \A x \in d.storage_devices : x.storage # TemplateUUID

(***************************************************************************)
(* Read is invoked on a tracked resource: an ID, and the template id when a *)
(* template was recorded; the remote server has any interfaces and devices. *)
(***************************************************************************)
ReadDeviceLists ==
    UNION {Perms({RemoteDevice(x) : x \in S}) \cup
           Perms({BootDevice("virtio:0")} \cup {RemoteDevice(x) : x \in S})
              : S \in PrevDeviceSets}

InitRead ==
    \E hasTemplate \in BOOLEAN, devices \in ReadDeviceLists, interfaces \in IfaceLists,
       exists \in BOOLEAN :
       /\ exists \/ (devices = <<>> /\ interfaces = <<>>)
       /\ d = TrackedData(hasTemplate, TemplateUUID)
       /\ remote = [RemoteServer("started", devices, interfaces) EXCEPT !.exists = exists]
    /\ prior = d
    /\ op = "read"
    /\ pc = "read"
    /\ serverDetails = Nil
    /\ server = Nil
    /\ err = ""
    /\ toDetach = {}
    /\ toAttach = {}
    /\ log = <<>>
    /\ ret = "none"
    /\ retry = NoRetry

NextRead == Read

SpecRead == InitRead /\ [][NextRead]_vars

\* The places of the public IPv4 interfaces in the remote list.
ConnPlaces ==
    {i \in 1..Len(remote.interfaces) :
        remote.interfaces[i].Type = "public" /\ remote.interfaces[i].Family = "IPv4"}

\* C10: after Read the connection host is the address of the first public IPv4
\* interface of the remote list, or empty if there is none.
C10_HostIsFirstPublicIPv4 ==
    (op = "read" /\ pc = "done" /\ ret = "ok") =>
        d.conn.host = IF ConnPlaces = {} THEN ""
                      ELSE remote.interfaces[CHOOSE i \in ConnPlaces :
                                                \A j \in ConnPlaces : i <= j].Address

\* Read has returned without an error.
ReadOk == op = "read" /\ pc = "done" /\ ret = "ok"

\* C13: when the server no longer exists remotely, Read clears the tracked ID
\* and does not return an error.
C13_NotFoundDropsResource ==
    (op = "read" /\ pc = "done" /\ ~remote.exists) => (d.id = "" /\ ret # "error")

\* The emitted entry has the key exactly if the remote tri-state is not empty,
\* and then the key's value is the remote true or false.
KeyIffSet(entry, key, tri) ==
    /\ (key \in DOMAIN entry) <=> (tri # "empty")
    /\ (key \in DOMAIN entry) => (entry[key] = (tri = "true"))

\* C16: for every remote interface the entry Read emits has bootable,
\* source_ip_filtering and ip_address_floating exactly if the remote tri-state
\* of that name is not empty, with the remote true or false as its value.
C16_TriStateKeys ==
    (ReadOk /\ Len(remote.interfaces) > 0) =>
        /\ Len(d.network_interface) = Len(remote.interfaces)
        /\ \A i \in 1..Len(remote.interfaces) :
              /\ KeyIffSet(d.network_interface[i], "bootable", remote.interfaces[i].Bootable)
              /\ KeyIffSet(d.network_interface[i], "source_ip_filtering",
                           remote.interfaces[i].SourceIPFiltering)
              /\ KeyIffSet(d.network_interface[i], "ip_address_floating",
                           remote.interfaces[i].Floating)

\* Read has emitted two interfaces, the first without bootable and the second
\* with bootable false.
C16_Witness ==
    /\ ReadOk
    /\ Len(d.network_interface) = 2
    /\ remote.interfaces[1].Bootable = "empty"
    /\ "bootable" \notin DOMAIN d.network_interface[1]
    /\ remote.interfaces[2].Bootable = "false"
    /\ d.network_interface[2]["bootable"] = FALSE

\* The storage_devices entry of a remote device.
EntryOf(x) == [address |-> x.Address, storage |-> x.UUID, type |-> x.Type]

\* C18: after a successful Read the remote devices are partitioned by the
\* template id recorded before: the device of that id is the template block
\* and no storage_devices entry, every other device is exactly one
\* storage_devices entry and not the template block, and storage_devices holds
\* nothing else; with no template id recorded every device is an entry.
C18_DevicesPartitioned ==
    ReadOk =>
        LET tid == TemplateId(prior)
            others == {i \in 1..Len(remote.devices) : remote.devices[i].UUID # tid}
        IN  /\ \A i \in 1..Len(remote.devices) :
                  LET x == remote.devices[i]
                  IN  IF x.UUID = tid
                      THEN /\ TemplateId(d) = x.UUID
                           /\ d.template[1].address = x.Address
                           /\ \A e \in d.storage_devices : e.storage # x.UUID
                      ELSE /\ EntryOf(x) \in d.storage_devices
                           /\ TemplateId(d) # x.UUID
            /\ d.storage_devices = {EntryOf(remote.devices[i]) : i \in others}
            /\ Cardinality(d.storage_devices) = Cardinality(others)
            /\ TemplateId(d) = tid

\* Read of a server with the recorded template and an additional device.
C18_Witness ==
    /\ ReadOk
    /\ TemplateId(prior) = TemplateUUID
    /\ \E i \in 1..Len(remote.devices) : remote.devices[i].UUID = TemplateUUID
    /\ d.template[1].address = "virtio:0"
    /\ Cardinality(d.storage_devices) = 1

(***************************************************************************)
(* utils.WithRetry: the retry helper.                                       *)
(***************************************************************************)
MaxRetries == 4     \* the largest retries argument the calls are drawn with
RetryDelay == 1000  \* var RetryDelay = 1000

\* retries is an int and delay a time.Duration: zero and negative values are
\* arguments like any other.
RetryCounts == -1..MaxRetries
Delays == {0, RetryDelay}

\* What the n-th invocation of fn returns: a value and a nil error, or an error.
ValueOf(n) == [value |-> n]
ErrorOf(n) == [error |-> n]

\* The handlers' variables while a call of WithRetry is what runs.
handlers == <<op, pc, prior, d, remote, serverDetails, server, err, toDetach, toAttach, log, ret>>

\* The events of a call, in order: sleeps and invocations of fn.
Sleep(delay) == [ev |-> "sleep", delay |-> delay, n |-> 0, ok |-> FALSE]
Call(n, ok) == [ev |-> "call", delay |-> 0, n |-> n, ok |-> ok]
Calls(w) == SelectSeq(w.events, LAMBDA e : e.ev = "call")
Sleeps(w) == SelectSeq(w.events, LAMBDA e : e.ev = "sleep")

\* A loop that sleeps between the invocations only, not before the first.
DelayedBetweenOnly(w) == w.delay > 0 /\ w.count > 0

\* if delay > 0
Delayed(w) == w.delay > 0

\* for count := 0; true; count++ { if delay > 0 { time.Sleep(delay) }
WithRetrySleep ==
    /\ retry # NoRetry
    /\ retry.pc = "sleep"
    /\ retry' = [retry EXCEPT !.pc = "check",
                              !.events = IF Delayed(retry) THEN Append(@, Sleep(retry.delay))
                                         ELSE @]
    /\ UNCHANGED handlers

\* An exhaustion test without the break: the loop spins at the test.
WithRetryCheckSpinning ==
    /\ retry # NoRetry
    /\ retry.pc = "check"
    /\ IF retry.count >= retry.retries
       THEN retry' = retry
       ELSE retry' = [retry EXCEPT !.pc = "call"]
    /\ UNCHANGED handlers

\* if count >= retries { break } ... return nil, err
WithRetryCheck ==
    /\ retry # NoRetry
    /\ retry.pc = "check"
    /\ IF retry.count >= retry.retries
       THEN retry' = [retry EXCEPT !.pc = "done",
                                   !.returned = [res |-> Nil, err |-> retry.err]]
       ELSE retry' = [retry EXCEPT !.pc = "call"]
    /\ UNCHANGED handlers

\* res, err = fn(); if err == nil { return res, nil } else { continue }
WithRetryCall ==
    /\ retry # NoRetry
    /\ retry.pc = "call"
    /\ \E ok \in BOOLEAN :
          LET n == Len(Calls(retry)) + 1
              events == Append(retry.events, Call(n, ok))
          IN  IF ok
              THEN retry' = [retry EXCEPT !.pc = "done", !.events = events,
                                          !.res = ValueOf(n), !.err = Nil,
                                          !.returned = [res |-> ValueOf(n), err |-> Nil]]
              ELSE retry' = [retry EXCEPT !.pc = "sleep", !.events = events,
                                          !.res = Nil, !.err = ErrorOf(n),
                                          !.count = @ + 1]
    /\ UNCHANGED handlers

\* func WithRetry(fn, retries, delay): var err error; var res interface{}
InitRetry ==
    /\ \E retries \in RetryCounts, delay \in Delays :
          retry = [pc |-> "sleep", retries |-> retries, delay |-> delay, count |-> 0,
                   res |-> Nil, err |-> Nil, events |-> <<>>, returned |-> Nil]
    /\ op = "retry"
    /\ pc = "done"
    /\ prior = EmptyData
    /\ d = EmptyData
    /\ remote = NoServer
    /\ serverDetails = Nil
    /\ server = Nil
    /\ err = ""
    /\ toDetach = {}
    /\ toAttach = {}
    /\ log = <<>>
    /\ ret = "none"

NextRetry == WithRetrySleep \/ WithRetryCheck \/ WithRetryCall

SpecRetry == InitRetry /\ [][NextRetry]_vars

\* The call has returned and no invocation of fn succeeded.
Exhausted == retry.pc = "done" /\ \A i \in 1..Len(retry.events) : ~retry.events[i].ok

\* Every invocation of fn comes directly after a sleep of the delay.
SleptBeforeEveryCall ==
    \A i \in 1..Len(retry.events) :
        retry.events[i].ev = "call" =>
            i > 1 /\ retry.events[i - 1] = Sleep(retry.delay)

\* C11: a call with retries >= 0 whose operation never succeeds invokes it
\* retries + 1 times (4 times for retries = 3), sleeps the delay before each
\* invocation and returns the error of the last invocation.
C11_InvokedRetriesPlusOne ==
    (Exhausted /\ retry.retries >= 0) =>
        /\ Len(Calls(retry)) = retry.retries + 1
        /\ retry.delay > 0 => SleptBeforeEveryCall
        /\ retry.returned = [res |-> Nil, err |-> ErrorOf(Len(Calls(retry)))]

\* C12: the delay is slept directly before every invocation of fn, the first
\* included, and a successful invocation is the last event of the call: the
\* call has returned that invocation's value with a nil error, and nothing is
\* invoked or slept after it.
C12_SleepsBeforeStopsAtSuccess ==
    retry # NoRetry =>
        /\ retry.delay > 0 => SleptBeforeEveryCall
        /\ \A i \in 1..Len(retry.events) :
              retry.events[i].ok =>
                  /\ i = Len(retry.events)
                  /\ retry.pc = "done"
                  /\ retry.returned = [res |-> ValueOf(retry.events[i].n), err |-> Nil]

\* A call with a positive delay has returned the value of its third invocation.
C12_Witness ==
    /\ retry # NoRetry
    /\ retry.pc = "done"
    /\ retry.delay > 0
    /\ retry.returned = [res |-> ValueOf(3), err |-> Nil]
    /\ Len(Sleeps(retry)) = 3

\* C20: a call returns a nil error only if an invocation of fn succeeded, and
\* then it returns the value of that invocation, whatever retries is.
C20_NilErrorOnlyAfterSuccess ==
    (retry # NoRetry /\ retry.pc = "done" /\ retry.returned.err = Nil) =>
        \E i \in 1..Len(retry.events) :
            /\ retry.events[i].ok
            /\ retry.returned.res = ValueOf(retry.events[i].n)

\* A call of WithRetry keeps running: the sleep ends after the delay, the test
\* is evaluated, and every invocation of fn returns.
SpecRetryFair == SpecRetry /\ WF_vars(NextRetry)

\* C21: WithRetry terminates: whatever retries and delay are, zero and
\* negative retries included, and whether or not fn ever succeeds, the call
\* eventually returns.
C21_Terminates == <>(retry # NoRetry /\ retry.pc = "done")

\* A call with retries = 3 has returned after fn failed at every one of its
\* invocations.
C21_Witness ==
    /\ retry # NoRetry
    /\ Exhausted
    /\ retry.retries = 3
    /\ Len(Calls(retry)) = 3
    /\ retry.returned.err = ErrorOf(3)

(***************************************************************************)
(* All handlers.                                                            *)
(***************************************************************************)
Init == InitCreate \/ InitRead \/ InitUpdate \/ InitDelete \/ InitRetry

Next == NextCreate \/ NextUpdate \/ NextDelete \/ NextRetry

Spec == Init /\ [][Next]_vars

====
